---- MODULE Spec2Model ----
(***************************************************************************)
(* German public holidays per federal state (FeiertagHandler).             *)
(*                                                                         *)
(* Two implementations of the same pipeline are modelled side by side:     *)
(*   impl = "holidays"   src/holidays.py                                   *)
(*   impl = "feiertage"  src/feiertage.py                                  *)
(* A handler is constructed (Init), builds its per-state daily table       *)
(* (create_db) and aggregates it (report / aggregated_report).             *)
(*                                                                         *)
(* Representation                                                          *)
(*   - a calendar date is a numpy datetime64[D]: the number of days since  *)
(*     1970-01-01 (an integer, negative before 1970);                      *)
(*   - a strftime string ("%Y", "%m", "%d", "%V") is the sequence of its   *)
(*     decimal digits, compared lexicographically as Python compares str;  *)
(*   - a DataFrame row is a function from column names to values, a        *)
(*     DataFrame is a function from row index to row (after a groupby the  *)
(*     index of a row is its group key);                                   *)
(*   - population fractions are fixed-point numbers, in millionths.        *)
(***************************************************************************)
EXTENDS Integers, Sequences, FiniteSets, TLC

VARIABLES impl, start_date, end_date, time_agg, geo_agg, count_sundays,
          special_holidays, bl_weights, states_info, eastern_dates, db,
          report_db, error, pc

vars == <<impl, start_date, end_date, time_agg, geo_agg, count_sundays,
          special_holidays, bl_weights, states_info, eastern_dates, db,
          report_db, error, pc>>

-----------------------------------------------------------------------------
(* Calendar arithmetic of datetime.date / numpy.datetime64 / pandas.       *)

\* datetime.date(year, month, day) as np.datetime64[D] (days since 1970-01-01)
date(year, month, day) ==
    LET y   == IF month <= 2 THEN year - 1 ELSE year
        era == y \div 400
        yoe == y - era * 400
        mp  == IF month > 2 THEN month - 3 ELSE month + 9
        doy == (153 * mp + 2) \div 5 + day - 1
        doe == yoe * 365 + yoe \div 4 - yoe \div 100 + doy
    IN  era * 146097 + doe - 719468

\* the civil date <<year, month, day>> of a day number
Civil(n) ==
    LET z   == n + 719468
        era == z \div 146097
        doe == z - era * 146097
        yoe == (doe - doe \div 1460 + doe \div 36524 - doe \div 146096) \div 365
        doy == doe - (365 * yoe + yoe \div 4 - yoe \div 100)
        mp  == (5 * doy + 2) \div 153
        d   == doy - (153 * mp + 2) \div 5 + 1
        m   == IF mp < 10 THEN mp + 3 ELSE mp - 9
        y   == yoe + era * 400
    IN  <<IF m <= 2 THEN y + 1 ELSE y, m, d>>

YearOf(n)  == Civil(n)[1]
MonthOf(n) == Civil(n)[2]
DayOf(n)   == Civil(n)[3]

\* DatetimeIndex.weekday: Monday = 0 .. Sunday = 6 (1970-01-01 was a Thursday)
weekday(n) == (n + 3) % 7

\* get_monday_date(day): day - timedelta(days=day.weekday())
get_monday_date(n) == n - weekday(n)

\* get_month_date(day): date(day.year, day.month, 1)
get_month_date(n) == date(YearOf(n), MonthOf(n), 1)

\* strftime("%V"): ISO 8601 week number, the week of the year of the
\* Thursday of the date's week
IsoWeek(n) ==
    LET thursday == get_monday_date(n) + 3
    IN  (thursday - date(YearOf(thursday), 1, 1)) \div 7 + 1

\* strftime("%m"), strftime("%d"), strftime("%V"): two decimal digits
Fmt2(k) == <<(k \div 10) % 10, k % 10>>

\* strftime("%Y"): four decimal digits
Fmt4(k) == <<(k \div 1000) % 10, (k \div 100) % 10, (k \div 10) % 10, k % 10>>

\* Python str < str: lexicographic comparison
RECURSIVE StrLt(_, _)
StrLt(a, b) ==
    IF b = <<>> THEN FALSE
    ELSE IF a = <<>> THEN TRUE
    ELSE IF Head(a) < Head(b) THEN TRUE
    ELSE IF Head(a) > Head(b) THEN FALSE
    ELSE StrLt(Tail(a), Tail(b))

StrLe(a, b) == a = b \/ StrLt(a, b)

\* A table held as a value. TLC keeps a function constructor unevaluated and
\* re-evaluates its body at every application; the comparison makes it
\* evaluate the table once. DataFrame(f) = f.
DataFrame(f) == IF f = f THEN f ELSE f

-----------------------------------------------------------------------------
(* Easter (Gaussian Easter formula as written in the source).              *)

\* FeiertagHandler.easter_date(year), src/holidays.py
easter_date(year) ==
    LET A  == year % 19
        K  == year \div 100
        M  == 15 + (3 * K + 3) \div 4 - (8 * K + 13) \div 25
        D  == (19 * A + M) % 30
        S  == 2 - (3 * K + 3) \div 4
        R  == D \div 29 + (D \div 28 - D \div 29) * (A \div 11)
        OG == 21 + D + R
        SZ == 7 - ((year + year \div 4 + S) % 7)
        OE == 7 - ((OG - SZ) % 7)
        OS == OG + OE
    IN  IF OS > 31 THEN date(year, 4, OS - 31) ELSE date(year, 3, OS)

\* ostern(year), src/feiertage.py
ostern(year) ==
    LET A  == year % 19
        K  == year \div 100
        M  == 15 + (3 * K + 3) \div 4 - (8 * K + 13) \div 25
        D  == (19 * A + M) % 30
        S  == 2 - (3 * K + 3) \div 4
        R  == D \div 29 + (D \div 28 - D \div 29) * (A \div 11)
        OG == 21 + D + R
        SZ == 7 - ((year + year \div 4 + S) % 7)
        OE == 7 - ((OG - SZ) % 7)
        OS == OG + OE
    IN  IF OS > 31 THEN date(year, 4, OS - 31) ELSE date(year, 3, OS)

\* the list of Easter dates create_db computes: one per year from the start
\* year to the end year, in order
EasterList(im, start, end) ==
    LET y0 == YearOf(start)
        y1 == YearOf(end)
    IN  [k \in 1..(y1 - y0 + 1) |->
            IF im = "holidays" THEN easter_date(y0 + k - 1) ELSE ostern(y0 + k - 1)]

-----------------------------------------------------------------------------
(* create_timeline: one row per calendar day of [start, end].              *)

TimelineRow(n) ==
    [date        |-> n,
     week        |-> Fmt2(IsoWeek(n)),
     month       |-> Fmt2(MonthOf(n)),
     year        |-> Fmt4(YearOf(n)),
     day         |-> Fmt2(DayOf(n)),
     weekday     |-> weekday(n),
     monday_date |-> get_monday_date(n),
     month_date  |-> get_month_date(n)]

create_timeline(start, end) ==
    DataFrame([i \in 1..(end - start + 1) |-> TimelineRow(start + i - 1)])

-----------------------------------------------------------------------------
(* create_db: the holiday indicator columns of one day.                    *)

\* easter_related_holidays: holiday -> offset in days from Easter Sunday
easter_related_holidays ==
    ("Ostersonntag" :> 0) @@ ("Karfreitag" :> -2) @@ ("Ostermontag" :> 1) @@
    ("Christi Himmelfahrt" :> 39) @@ ("Pfingstmontag" :> 50) @@
    ("Pfingstsonntag" :> 49) @@ ("Fronleichnam" :> 60) @@
    ("Rosenmontag" :> -48) @@ ("Fastnachtsdienstag" :> -47)

\* mutant of IsIn: only the Easter date of the first year is tested
IsIn_FirstYear(n, eastern, offset) ==
    IF n = eastern[1] + offset THEN 1 ELSE 0

\* db[holiday] = db['date'].isin([d + offset for d in eastern_dates]):
\* the pooled membership test over the Easter dates of all years in range
IsIn(n, eastern, offset) ==
    IF \E k \in DOMAIN eastern : n = eastern[k] + offset THEN 1 ELSE 0

MovableCols(t, eastern) ==
    [h \in DOMAIN easter_related_holidays |->
        IsIn(t.date, eastern, easter_related_holidays[h])]

\* fixed_date_holidays of src/holidays.py: holiday -> (month, day); a day
\* written 'lo-hi' is split at '-' into <<lo, hi>>
fixed_date_holidays ==
    ("Neujahrstag" :> << <<0,1>>, << <<0,1>> >> >>) @@
    ("Maifeiertag" :> << <<0,5>>, << <<0,1>> >> >>) @@
    ("Tag der deutschen Einheit" :> << <<1,0>>, << <<0,3>> >> >>) @@
    ("Erster Weihnachtstag" :> << <<1,2>>, << <<2,5>> >> >>) @@
    ("Zweiter Weihnachtstag" :> << <<1,2>>, << <<2,6>> >> >>) @@
    ("Heilige drei Koenige" :> << <<0,1>>, << <<0,6>> >> >>) @@
    ("Frauentag" :> << <<0,3>>, << <<0,8>> >> >>) @@
    ("Maria Himmelfahrt" :> << <<0,8>>, << <<1,5>> >> >>) @@
    ("Weltkindertag" :> << <<0,9>>, << <<2,0>> >> >>) @@
    ("Reformationstag" :> << <<1,0>>, << <<3,1>> >> >>) @@
    ("Allerheiligen" :> << <<1,1>>, << <<0,1>> >> >>) @@
    ("Buss- und Bettag" :> << <<1,1>>, << <<1,6>>, <<2,2>> >> >>)

\* Series.between(lo, hi): lo <= x <= hi, on strings
Between(x, lo, hi) == StrLe(lo, x) /\ StrLe(x, hi)

\* src/holidays.py: (month == m) & (day == d if '-' not in d else
\* day.between(*d.split('-')))
FixedColHolidays(t, h) ==
    LET m == fixed_date_holidays[h][1]
        d == fixed_date_holidays[h][2]
    IN  IF t.month = m /\ (IF Len(d) = 1 THEN t.day = d[1]
                                         ELSE Between(t.day, d[1], d[2]))
        THEN 1 ELSE 0

\* src/feiertage.py: one np.where per holiday
Frauentag(t) ==
    IF t.month = <<0,3>> /\ t.day = <<0,8>> /\ StrLe(<<2,0,1,9>>, t.year)
    THEN 1 ELSE 0

Weltkindertag(t) ==
    IF t.month = <<0,9>> /\ t.day = <<2,0>> /\ StrLe(<<2,0,1,9>>, t.year)
    THEN 1 ELSE 0

BussUndBettag(t) ==
    IF t.month = <<1,1>> /\ StrLt(t.day, <<2,3>>) /\ StrLe(<<1,6>>, t.day)
       /\ t.weekday = 2
    THEN 1 ELSE 0

MonthDay(t, m, d) == IF t.month = m /\ t.day = d THEN 1 ELSE 0

FixedColFeiertage(t, h) ==
    CASE h = "Neujahrstag" -> MonthDay(t, <<0,1>>, <<0,1>>)
      [] h = "Maifeiertag" -> MonthDay(t, <<0,5>>, <<0,1>>)
      [] h = "Tag der deutschen Einheit" -> MonthDay(t, <<1,0>>, <<0,3>>)
      [] h = "Erster Weihnachtstag" -> MonthDay(t, <<1,2>>, <<2,5>>)
      [] h = "Zweiter Weihnachtstag" -> MonthDay(t, <<1,2>>, <<2,6>>)
      [] h = "Heilige drei Koenige" -> MonthDay(t, <<0,1>>, <<0,6>>)
      [] h = "Frauentag" -> Frauentag(t)
      [] h = "Maria Himmelfahrt" -> MonthDay(t, <<0,8>>, <<1,5>>)
      [] h = "Weltkindertag" -> Weltkindertag(t)
      [] h = "Reformationstag" -> MonthDay(t, <<1,0>>, <<3,1>>)
      [] h = "Allerheiligen" -> MonthDay(t, <<1,1>>, <<0,1>>)
      [] h = "Buss- und Bettag" -> BussUndBettag(t)

FixedCols(im, t) ==
    [h \in DOMAIN fixed_date_holidays |->
        IF im = "holidays" THEN FixedColHolidays(t, h)
                           ELSE FixedColFeiertage(t, h)]

\* specific dates (not public holidays), only with special_holidays
Muttertag(t) ==
    IF t.month = <<0,5>> /\ t.weekday = 6
       /\ StrLe(<<0,8>>, t.day) /\ StrLe(t.day, <<1,4>>)
    THEN 1 ELSE 0

SpecialCols(t) ==
    ("Silvester" :> MonthDay(t, <<1,2>>, <<3,1>>)) @@
    ("Muttertag" :> Muttertag(t)) @@
    ("Valentinstag" :> MonthDay(t, <<0,2>>, <<1,4>>)) @@
    ("Nikolaustag" :> MonthDay(t, <<1,2>>, <<0,6>>))

\* the timeline row with every holiday column added
DayCols(im, t, eastern, special) ==
    IF special
    THEN t @@ MovableCols(t, eastern) @@ FixedCols(im, t) @@ SpecialCols(t)
    ELSE t @@ MovableCols(t, eastern) @@ FixedCols(im, t)

-----------------------------------------------------------------------------
(* create_db: the state table, the cross join and FT / VOT.                *)

state_codes ==
    <<"BW", "BY", "BE", "BB", "HB", "HH", "HE", "MV",
      "NI", "NW", "RP", "SL", "SN", "ST", "SH", "TH">>

\* population fractions of self.states_info, in millionths
population_pct ==
    <<133522, 158020, 44063, 30438, 8179, 22277, 75680, 19371,
      96247, 215568, 49286, 11833, 26224, 48788, 35005, 25497>>

state_names ==
    <<"Baden-Wuerttemberg", "Bayern", "Berlin", "Brandenburg", "Bremen",
      "Hamburg", "Hessen", "Mecklenburg-Vorpommern", "Niedersachsen",
      "Nordrhein-Westfalen", "Rheinland-Pfalz", "Saarland", "Sachsen",
      "Sachsen-Anhalt", "Schleswig-Holstein", "Thueringen">>

\* src/holidays.py: the dict self.states_info, as rows in insertion order
states_info_dict ==
    [k \in DOMAIN state_codes |->
        [state_code |-> state_codes[k], population_pct |-> population_pct[k]]]

\* src/feiertage.py: the module-level table read from states_de.xlsx
\* (columns state, state_code, population_pct)
states_de_xlsx ==
    [k \in DOMAIN state_codes |->
        [state |-> state_names[k], state_code |-> state_codes[k],
         population_pct |-> population_pct[k]]]

\* the states_df that create_db cross-joins with the timeline:
\* holidays.py keeps (state_code, population_pct), feiertage.py copies
\* (state, state_code)
StatesDf(im, info) ==
    [k \in DOMAIN info |->
        IF im = "holidays"
        THEN [state_code |-> info[k].state_code,
              population_pct |-> info[k].population_pct]
        ELSE [state |-> info[k].state, state_code |-> info[k].state_code]]

public_german_holidays ==
    <<"Neujahrstag", "Karfreitag", "Ostermontag", "Maifeiertag",
      "Christi Himmelfahrt", "Pfingstmontag", "Tag der deutschen Einheit",
      "Erster Weihnachtstag", "Zweiter Weihnachtstag">>

states_holidays ==
    ("BW" :> <<"Heilige drei Koenige", "Fronleichnam", "Allerheiligen">>) @@
    ("BY" :> <<"Heilige drei Koenige", "Fronleichnam", "Maria Himmelfahrt",
               "Allerheiligen", "Buss- und Bettag">>) @@
    ("BE" :> <<"Frauentag">>) @@
    ("BB" :> <<"Ostersonntag", "Pfingstsonntag", "Reformationstag">>) @@
    ("HB" :> <<"Reformationstag">>) @@
    ("HH" :> <<"Reformationstag">>) @@
    ("HE" :> <<"Ostersonntag", "Pfingstsonntag", "Fronleichnam">>) @@
    ("MV" :> <<"Reformationstag">>) @@
    ("NI" :> <<"Reformationstag">>) @@
    ("NW" :> <<"Fronleichnam", "Allerheiligen">>) @@
    ("RP" :> <<"Fronleichnam", "Allerheiligen">>) @@
    ("SL" :> <<"Fronleichnam", "Allerheiligen", "Maria Himmelfahrt">>) @@
    ("SN" :> <<"Fronleichnam", "Buss- und Bettag", "Reformationstag">>) @@
    ("ST" :> <<"Heilige drei Koenige", "Reformationstag">>) @@
    ("SH" :> <<"Reformationstag">>) @@
    ("TH" :> <<"Fronleichnam", "Weltkindertag", "Reformationstag">>)

\* the sum of the row's columns named in the list
RECURSIVE SumCols(_, _)
SumCols(row, names) ==
    IF names = <<>> THEN 0 ELSE row[Head(names)] + SumCols(row, Tail(names))

\* db['FT'] = 0; for feiertag in public_german_holidays: db['FT'] += db[feiertag]
PublicFT(row) == SumCols(row, public_german_holidays)

\* mutant of StateFT: the np.where condition on state_code is lost, every
\* state's special holidays are added to every row
RECURSIVE SumAllStates(_, _)
SumAllStates(row, codes) ==
    IF codes = <<>> THEN 0
    ELSE SumCols(row, states_holidays[Head(codes)]) + SumAllStates(row, Tail(codes))

StateFT_Unconditional(row, ft) == ft + SumAllStates(row, state_codes)

\* for state_code in states_holidays: for special_holiday in ...:
\*   db['FT'] = np.where(db['state_code'] == state_code,
\*                       db['FT'] + db[special_holiday], db['FT'])
StateFT(row, ft) ==
    IF row.state_code \in DOMAIN states_holidays
    THEN ft + SumCols(row, states_holidays[row.state_code])
    ELSE ft

\* mutant of ReformationAdjust: the year test is <= '2018'
ReformationAdjust_Through2018(row, ft) ==
    IF StrLe(row.year, <<2,0,1,8>>) /\ row["Reformationstag"] = 1
       /\ row.state_code \in {"HB", "HH", "NI", "SH"}
    THEN 0 ELSE ft

\* Reformationstag adjustment: zero before 2018 in HB, HH, NI, SH
ReformationAdjust(row, ft) ==
    IF StrLt(row.year, <<2,0,1,8>>) /\ row["Reformationstag"] = 1
       /\ row.state_code \in {"HB", "HH", "NI", "SH"}
    THEN 0 ELSE ft

\* db['FT'] = np.where(db['date'] == date(2017, 10, 31), 1, db['FT'])
Jubilee(row, ft) == IF row.date = date(2017, 10, 31) THEN 1 ELSE ft

\* db['VOT'] = np.where(db['weekday'] != 6, 1 - db['FT'], 0)
VOT(row, ft) == IF row.weekday # 6 THEN 1 - ft ELSE 0

\* create_db: the per-state daily table; row <<k, i>> is state k, day i
create_db(im, start, end, special, info) ==
    LET timeline  == create_timeline(start, end)
        eastern   == EasterList(im, start, end)
        cols      == DataFrame([i \in DOMAIN timeline |->
                         DayCols(im, timeline[i], eastern, special)])
        states_df == StatesDf(im, info)
    IN  DataFrame([r \in (DOMAIN states_df) \X (DOMAIN timeline) |->
            LET row == states_df[r[1]] @@ cols[r[2]]
                ft  == Jubilee(row,
                         ReformationAdjust(row, StateFT(row, PublicFT(row))))
            IN  row @@ ("FT" :> ft) @@ ("VOT" :> VOT(row, ft))])

-----------------------------------------------------------------------------
(* aggregated_report (src/holidays.py) / report (src/feiertage.py).        *)
(* A DataFrame is a function from row index to row; after a groupby the    *)
(* index of a row is its group key.                                        *)

\* mutant of ZeroSundayFT: the weekday tested is 5 (Saturday)
ZeroSundayFT_Saturday(row) == IF row.weekday = 5 THEN 0 ELSE row.FT

\* zeroing of holidays which fall on sunday
ZeroSundayFT(row) == IF row.weekday = 6 THEN 0 ELSE row.FT

\* if not self.count_sundays: db['FT'] = np.where(db['weekday'] == 6, 0, db['FT'])
SundayAdjust(d, cs) ==
    IF cs THEN d
    ELSE DataFrame([r \in DOMAIN d |-> [d[r] EXCEPT !["FT"] = ZeroSundayFT(d[r])]])

\* mutant of TimeVar: the weekly key is the month start
TimeVar_Month(ta) == IF ta = "day" THEN "date" ELSE "month_date"

\* var = "date" for time_agg "day", "monday_date" for "week"
TimeVar(ta) == IF ta = "day" THEN "date" ELSE "monday_date"

\* db['date'] = db[var]
SetDate(d, var) ==
    DataFrame([r \in DOMAIN d |-> [d[r] EXCEPT !["date"] = d[r][var]]])

\* DataFrame.drop(columns)
Drop(d, columns) ==
    DataFrame([r \in DOMAIN d |-> [c \in (DOMAIN d[r]) \ columns |-> d[r][c]]])

time_columns ==
    {"day", "month", "week", "year", "weekday", "monday_date", "month_date"}

RECURSIVE SumOver(_, _, _)
SumOver(d, rows, c) ==
    IF rows = {} THEN 0
    ELSE LET r == CHOOSE x \in rows : TRUE
         IN  d[r][c] + SumOver(d, rows \ {r}, c)

KeyOf(row, keys) == [c \in keys |-> row[c]]

\* DataFrame.groupby(keys, as_index=False).sum(): one row per key, every
\* other column summed over the rows of the group
GroupBySum(d, keys) ==
    LET ks == {KeyOf(d[r], keys) : r \in DOMAIN d}
    IN  DataFrame([k \in ks |->
            LET members == {r \in DOMAIN d : KeyOf(d[r], keys) = k}
                first   == d[CHOOSE r \in members : TRUE]
            IN  k @@ [c \in (DOMAIN first) \ keys |-> SumOver(d, members, c)]])

\* pd.merge(d, table, on=[on]): one row per pair of a row of d and a row
\* of the table that agree on the column `on`
Merge(d, table, on) ==
    DataFrame(
      [p \in {q \in (DOMAIN d) \X (DOMAIN table) : d[q[1]][on] = table[q[2]][on]} |->
          d[p[1]] @@ table[p[2]]])

\* mutant of Multiply: VOT is left out of columns_to_multiply
Multiply_SkipVOT(d, keep) ==
    DataFrame(
      [r \in DOMAIN d |->
          [c \in DOMAIN d[r] |->
              IF c \in keep \cup {"VOT"} THEN d[r][c]
              ELSE d[r][c] * d[r].population_pct]])

\* db[columns_to_multiply].multiply(db["population_pct"], axis="index")
Multiply(d, keep) ==
    DataFrame(
      [r \in DOMAIN d |->
          [c \in DOMAIN d[r] |->
              IF c \in keep THEN d[r][c] ELSE d[r][c] * d[r].population_pct]])

\* the states_df that holidays.py merges back: (state_code, population_pct, key)
StatesDfKey(info) ==
    [k \in DOMAIN info |->
        [state_code |-> info[k].state_code,
         population_pct |-> info[k].population_pct, key |-> 0]]

\* self.states_info[['state', 'population_pct']] of feiertage.py
StatePct(info) ==
    [k \in DOMAIN info |->
        [state |-> info[k].state, population_pct |-> info[k].population_pct]]

\* astype('int32') of a population-weighted value (truncation); FT and VOT
\* are cast to float32 and keep their fractional value (in millionths)
ToInt32(c, v, weighted) ==
    IF weighted \/ c = "population_pct" THEN v \div 1000000 ELSE v

CastColumns(d, weighted) ==
    DataFrame(
      [r \in DOMAIN d |->
          [c \in DOMAIN d[r] |->
              IF c \in {"date", "FT", "VOT", "state", "state_code"}
              THEN d[r][c] ELSE ToInt32(c, d[r][c], weighted)]])

\* aggregation on DE-level of holidays.py
NationwideHolidays(d) ==
    GroupBySum(Drop(Multiply(d, {"state_code", "date", "population_pct"}),
                    {"state_code", "population_pct"}), {"date"})

\* aggregation on DE-level of feiertage.py
NationwideFeiertage(d, info) ==
    GroupBySum(Drop(Multiply(Merge(d, StatePct(info), "state"),
                             {"state", "state_code", "date", "population_pct"}),
                    {"state", "state_code", "population_pct"}), {"date"})

\* the report of src/holidays.py from the table d (already Sunday-adjusted
\* and re-dated)
ReportHolidays(d, ga, info) ==
    LET grouped == Drop(GroupBySum(Drop(d, time_columns), {"state_code", "date"}),
                        {"population_pct"})
        merged  == Merge(grouped, StatesDfKey(info), "state_code")
        geo     == IF ga = "de" THEN NationwideHolidays(merged) ELSE merged
    IN  Drop(CastColumns(geo, ga = "de"), {"key", "population_pct"})

\* the report of src/feiertage.py
ReportFeiertage(d, ga, info) ==
    LET grouped == GroupBySum(Drop(d, time_columns), {"state", "state_code", "date"})
        geo     == IF ga = "de" THEN NationwideFeiertage(grouped, info) ELSE grouped
    IN  CastColumns(geo, ga = "de")

\* the table self.db holds after the aggregation ran: db is an alias of
\* self.db, so the Sunday zeroing and db['date'] = db[var] write into it
DbAfterReport(d, ta, cs) == SetDate(SundayAdjust(d, cs), TimeVar(ta))

\* the report for valid time_agg
ReportOf(im, d, ta, ga, cs, info) ==
    IF im = "holidays"
    THEN ReportHolidays(DbAfterReport(d, ta, cs), ga, info)
    ELSE ReportFeiertage(DbAfterReport(d, ta, cs), ga, info)

-----------------------------------------------------------------------------
(* The handler as a state machine.                                         *)

\* number of days of a timeline
MaxDays == 9

\* first days of the date ranges a handler is constructed with
StartDates ==
    {date(1981, 4, 17), date(2008, 4, 27), date(2016, 10, 28),
     date(2017, 10, 26), date(2018, 10, 28), date(2021, 10, 25),
     date(2018, 3, 4), date(2019, 3, 4), date(2018, 9, 15),
     date(2019, 9, 15), date(2024, 11, 14), date(2024, 3, 27),
     date(2023, 12, 27), date(2024, 5, 5)}

Impls == {"holidays", "feiertage"}

\* if bl_weights: self.states_info['population_pct'] = bl_weights
\* (bl_weights=None is the empty list here: both are false for `if`)
WithWeights(info, w) ==
    IF Len(w) > 0
    THEN [k \in DOMAIN info |-> [info[k] EXCEPT !["population_pct"] = w[k]]]
    ELSE info

\* self.states_info of a handler being constructed: holidays.py builds its
\* own dict; feiertage.py takes the module-level table `global_info` itself
\* (not a copy) and writes bl_weights into it
StatesInfo(im, global_info, w) ==
    IF im = "holidays" THEN states_info_dict ELSE WithWeights(global_info, w)

\* time_agg / geo_agg as the caller may pass them: the documented values
\* and one other string each
TimeAggs == {"day", "week", "month"}
GeoAggs  == {"state", "de", "region"}

\* __init__ up to the first call: the arguments are stored on the handler
Init ==
    /\ impl \in Impls
    /\ start_date \in StartDates
    /\ end_date = start_date + MaxDays - 1
    /\ time_agg \in TimeAggs
    /\ geo_agg \in GeoAggs
    /\ count_sundays \in BOOLEAN
    /\ special_holidays \in BOOLEAN
    /\ bl_weights = <<>>
    /\ states_info = StatesInfo(impl, states_de_xlsx, bl_weights)
    /\ eastern_dates = <<>>
    /\ db = <<>>
    /\ report_db = <<>>
    /\ error = "none"
    /\ pc = "init"

\* self.db = self.create_db()
CreateDb ==
    /\ pc = "init"
    /\ eastern_dates' = EasterList(impl, start_date, end_date)
    /\ db' = create_db(impl, start_date, end_date, special_holidays, states_info)
    /\ pc' = "created"
    /\ UNCHANGED <<impl, start_date, end_date, time_agg, geo_agg, count_sundays,
                   special_holidays, bl_weights, states_info, report_db, error>>

\* the exception an unknown time_agg ends in: holidays.py raises
\* ValueError("wrong aggregation"); feiertage.py prints "wrong aggregation"
\* and then reads the unbound local var
TimeAggError(im) == IF im = "holidays" THEN "ValueError" ELSE "UnboundLocalError"

\* self.report_db = self.aggregated_report()   (self.report() in feiertage.py)
AggregatedReport ==
    /\ pc = "created"
    /\ IF time_agg \in {"day", "week"}
       THEN /\ db' = DbAfterReport(db, time_agg, count_sundays)
            /\ report_db' = ReportOf(impl, db, time_agg, geo_agg,
                                     count_sundays, states_info)
            /\ error' = "none"
            /\ pc' = "done"
       ELSE /\ db' = SundayAdjust(db, count_sundays)
            /\ report_db' = report_db
            /\ error' = TimeAggError(impl)
            /\ pc' = "raised"
    /\ UNCHANGED <<impl, start_date, end_date, time_agg, geo_agg, count_sundays,
                   special_holidays, bl_weights, states_info, eastern_dates>>

Next == CreateDb \/ AggregatedReport

Spec == Init /\ [][Next]_vars

-----------------------------------------------------------------------------
(* The Easter calculator on its own: one call per year.                    *)

FirstYear == 1900
LastYear  == 2099

\* a handler for one whole calendar year, with the constructor's defaults
InitEaster ==
    /\ impl \in Impls
    /\ \E y \in FirstYear..LastYear :
          /\ start_date = date(y, 1, 1)
          /\ end_date = date(y, 12, 31)
    /\ time_agg = "week"
    /\ geo_agg = "state"
    /\ count_sundays = FALSE
    /\ special_holidays = TRUE
    /\ bl_weights = <<>>
    /\ states_info = StatesInfo(impl, states_de_xlsx, bl_weights)
    /\ eastern_dates = <<>>
    /\ db = <<>>
    /\ report_db = <<>>
    /\ error = "none"
    /\ pc = "init"

\* eastern_dates = [self.easter_date(i) for i in range(start year, end year + 1)]
EasterDates ==
    /\ pc = "init"
    /\ eastern_dates' = EasterList(impl, start_date, end_date)
    /\ pc' = "easter"
    /\ UNCHANGED <<impl, start_date, end_date, time_agg, geo_agg, count_sundays,
                   special_holidays, bl_weights, states_info, db, report_db, error>>

NextEaster == EasterDates

SpecEaster == InitEaster /\ [][NextEaster]_vars

-----------------------------------------------------------------------------
(* Several handlers constructed one after another in one interpreter.  For *)
(* feiertage.py states_info is the table of the module (global            *)
(* states_info, read once at import); for holidays.py it is the dict the  *)
(* constructor builds for each handler.                                    *)

\* a custom bl_weights list: every state weighs the same (in millionths)
uniform_weights == [k \in 1..16 |-> 62500]

\* bl_weights as a caller may pass it; holidays.py has no such parameter
WeightChoices(im) == IF im = "holidays" THEN {<<>>} ELSE {<<>>, uniform_weights}

\* the ranges of the handlers of a session: the week of Reformationstag
\* 2018 (a holiday in nine states) and the Easter week of 2024
SessionStarts == {date(2018, 10, 28), date(2024, 3, 27)}

\* the first handler of the interpreter: the module table is as loaded
InitWeights ==
    /\ impl \in Impls
    /\ start_date \in SessionStarts
    /\ end_date = start_date + MaxDays - 1
    /\ time_agg \in TimeAggs
    /\ geo_agg \in {"state", "de"}
    /\ count_sundays \in BOOLEAN
    /\ special_holidays = TRUE
    /\ bl_weights \in WeightChoices(impl)
    /\ states_info = StatesInfo(impl, states_de_xlsx, bl_weights)
    /\ eastern_dates = <<>>
    /\ db = <<>>
    /\ report_db = <<>>
    /\ error = "none"
    /\ pc = "init"

\* FeiertagHandler(...) once more, after the previous handler has reported
\* or raised: the new handler's attributes replace the old one's; the module
\* table of feiertage.py is what the previous constructors left of it
Construct ==
    /\ pc \in {"done", "raised"}
    /\ impl' = impl
    /\ start_date' \in SessionStarts
    /\ end_date' = start_date' + MaxDays - 1
    /\ time_agg' \in TimeAggs
    /\ geo_agg' \in {"state", "de"}
    /\ count_sundays' \in BOOLEAN
    /\ special_holidays' = TRUE
    /\ bl_weights' \in WeightChoices(impl)
    /\ states_info' = StatesInfo(impl, states_info, bl_weights')
    /\ eastern_dates' = <<>>
    /\ db' = <<>>
    /\ report_db' = <<>>
    /\ error' = "none"
    /\ pc' = "init"

NextWeights == CreateDb \/ AggregatedReport \/ Construct

SpecWeights == InitWeights /\ [][NextWeights]_vars

-----------------------------------------------------------------------------
(* One handler whose aggregation is run again by the caller.               *)

InitRerun ==
    /\ impl \in Impls
    /\ start_date \in SessionStarts
    /\ end_date = start_date + MaxDays - 1
    /\ time_agg \in TimeAggs
    /\ geo_agg \in GeoAggs
    /\ count_sundays \in BOOLEAN
    /\ special_holidays \in BOOLEAN
    /\ bl_weights = <<>>
    /\ states_info = StatesInfo(impl, states_de_xlsx, bl_weights)
    /\ eastern_dates = <<>>
    /\ db = <<>>
    /\ report_db = <<>>
    /\ error = "none"
    /\ pc = "init"

\* handler.time_agg = ta; handler.count_sundays = cs;
\* handler.report_db = handler.aggregated_report()   (feiertage.py: report())
\* on a handler that has reported: db = self.db is the stored table itself,
\* so the FT and date assignments of this and of the earlier runs are in it
Rerun ==
    /\ pc = "done"
    /\ \E ta \in TimeAggs, cs \in BOOLEAN :
          /\ time_agg' = ta
          /\ count_sundays' = cs
          /\ IF ta \in {"day", "week"}
             THEN /\ db' = DbAfterReport(db, ta, cs)
                  /\ report_db' = ReportOf(impl, db, ta, geo_agg, cs, states_info)
                  /\ error' = "none"
                  /\ pc' = "done"
             ELSE /\ db' = SundayAdjust(db, cs)
                  /\ report_db' = report_db
                  /\ error' = TimeAggError(impl)
                  /\ pc' = "raised"
    /\ UNCHANGED <<impl, start_date, end_date, geo_agg, special_holidays,
                   bl_weights, states_info, eastern_dates>>

NextRerun == CreateDb \/ AggregatedReport \/ Rerun

SpecRerun == InitRerun /\ [][NextRerun]_vars

-----------------------------------------------------------------------------
(* create_db up to the movable holidays, over ranges of whole years.       *)

\* years a range starts in, and the number of further years it covers
MovableFirstYear == 1980
MovableLastYear  == 2040
MaxYearSpan      == 2

InitMovable ==
    /\ impl \in Impls
    /\ \E y \in MovableFirstYear..MovableLastYear, n \in 0..MaxYearSpan :
          /\ start_date = date(y, 1, 1)
          /\ end_date = date(y + n, 12, 31)
    /\ time_agg = "week"
    /\ geo_agg = "state"
    /\ count_sundays = FALSE
    /\ special_holidays = TRUE
    /\ bl_weights = <<>>
    /\ states_info = StatesInfo(impl, states_de_xlsx, bl_weights)
    /\ eastern_dates = <<>>
    /\ db = <<>>
    /\ report_db = <<>>
    /\ error = "none"
    /\ pc = "init"

\* db = self.create_timeline(); eastern_dates = [...];
\* for holiday, offset in easter_related_holidays.items(): db[holiday] = ...
MovableHolidays ==
    /\ pc = "init"
    /\ eastern_dates' = EasterList(impl, start_date, end_date)
    /\ db' = LET timeline == create_timeline(start_date, end_date)
                 eastern  == EasterList(impl, start_date, end_date)
             IN  DataFrame([i \in DOMAIN timeline |->
                     timeline[i] @@ MovableCols(timeline[i], eastern)])
    /\ pc' = "movable"
    /\ UNCHANGED <<impl, start_date, end_date, time_agg, geo_agg, count_sundays,
                   special_holidays, bl_weights, states_info, report_db, error>>

NextMovable == MovableHolidays

SpecMovable == InitMovable /\ [][NextMovable]_vars

-----------------------------------------------------------------------------
(* Properties.                                                             *)

\* the rows of a DataFrame
Rows(d) == {d[r] : r \in DOMAIN d}

\* the year of the k-th entry of eastern_dates
EasterYear(k) == YearOf(start_date) + k - 1

\* C1: for every year from 1900 to 2099 the date the Easter calculator
\* returns lies between March 22 and April 25 inclusive and is a Sunday.
C1_EasterInRangeAndSunday ==
    \A k \in DOMAIN eastern_dates :
        /\ date(EasterYear(k), 3, 22) <= eastern_dates[k]
        /\ eastern_dates[k] <= date(EasterYear(k), 4, 25)
        /\ weekday(eastern_dates[k]) = 6

\* the rows of the table create_db returned, before any aggregation
Created == IF pc = "created" THEN Rows(db) ELSE {}

IsOct31(row) == MonthOf(row.date) = 10 /\ DayOf(row.date) = 31

C3_FTRange == \A row \in Created : row.FT \in {0, 1, 2}

\* C3 witness: a day on which two counted holidays coincide (FT = 2)
C3_Witness == \E row \in Created : row.FT = 2

\* C4: the per-state daily VOT is an indicator: 0 on every Sunday, and on
\* any other weekday 1 - FT with FT being 0 or 1, so never negative.
C4_VOTIndicator ==
    \A row \in Created :
        /\ row.VOT \in {0, 1}
        /\ weekday(row.date) = 6 => row.VOT = 0
        /\ weekday(row.date) # 6 => (row.FT \in {0, 1} /\ row.VOT = 1 - row.FT)

\* C5: the Frauentag (March 8) and Weltkindertag (September 20) indicators
\* are 0 before 2019 and 1 on those dates from 2019 onward; BE has FT = 0
\* on March 8 and TH has FT = 0 on September 20 in any year before 2019.
C5_YearFloor ==
    \A row \in Created :
        LET y == YearOf(row.date)
            m == MonthOf(row.date)
            d == DayOf(row.date)
        IN  /\ row["Frauentag"] = IF m = 3 /\ d = 8 /\ y >= 2019 THEN 1 ELSE 0
            /\ row["Weltkindertag"] = IF m = 9 /\ d = 20 /\ y >= 2019 THEN 1 ELSE 0
            /\ (row.state_code = "BE" /\ m = 3 /\ d = 8 /\ y < 2019) => row.FT = 0
            /\ (row.state_code = "TH" /\ m = 9 /\ d = 20 /\ y < 2019) => row.FT = 0

\* the dates of the table on which the Buss- und Bettag indicator is 1
BussUndBettagDates ==
    {row.date : row \in {r \in Created : r["Buss- und Bettag"] = 1}}

\* C6: the Buss- und Bettag indicator is 1 only on a Wednesday in November
\* with day-of-month 16..22, and on exactly one date of every year whose
\* November 16..22 the timeline covers.
C6_BussUndBettag ==
    /\ \A n \in BussUndBettagDates :
          weekday(n) = 2 /\ MonthOf(n) = 11 /\ DayOf(n) \in 16..22
    /\ \A y \in YearOf(start_date)..YearOf(end_date) :
          (pc = "created" /\ start_date <= date(y, 11, 16)
                          /\ date(y, 11, 22) <= end_date) =>
             Cardinality({n \in BussUndBettagDates : YearOf(n) = y}) = 1

\* the table a freshly constructed handler with the same arguments builds
Fresh == create_db(impl, start_date, end_date, special_holidays, states_info)

\* the columns that identify a state in a report
StateKeys == IF impl = "holidays" THEN {"state_code"} ELSE {"state", "state_code"}

\* a daily per-state report summed again per state and per week, each row
\* filed under the Monday of its ISO week
ResumByWeek(d) ==
    GroupBySum(DataFrame([r \in DOMAIN d |-> [d[r] EXCEPT !["date"] = @ - weekday(@)]]),
               StateKeys \cup {"date"})

\* C7: summing the report for time_agg=day, geo_agg=state per state and
\* per week gives exactly the report for time_agg=week, geo_agg=state, for
\* every holiday column, FT and VOT.
C7_WeekIsSumOfDays ==
    (pc = "done" /\ time_agg = "week" /\ geo_agg = "state") =>
        Rows(report_db) =
            Rows(ResumByWeek(ReportOf(impl, Fresh, "day", "state",
                                      count_sundays, states_info)))

\* C7 witness: a weekly per-state report over more than one week in which
\* some week collects two holidays
C7_Witness ==
    /\ pc = "done" /\ time_agg = "week" /\ geo_agg = "state"
    /\ Cardinality({row.date : row \in Rows(report_db)}) >= 2
    /\ \E row \in Rows(report_db) : row.FT >= 2

\* the sum over all states of the state's value of column c in bucket b
\* of the per-state report st, times the state's population fraction
RECURSIVE WeightedSum(_, _, _, _)
WeightedSum(st, ks, c, b) ==
    IF ks = {} THEN 0
    ELSE LET k    == CHOOSE x \in ks : TRUE
             mine == {r \in DOMAIN st :
                         st[r].state_code = states_info[k].state_code
                         /\ st[r].date = b}
         IN  states_info[k].population_pct * SumOver(st, mine, c)
             + WeightedSum(st, ks \ {k}, c, b)

\* C8: with geo_agg=de the reported FT (and VOT) of every time bucket is
\* the sum over all 16 states of the state's FT (VOT) for the bucket times
\* the state's population fraction, each state counted once.
C8_NationwideIsWeightedSum ==
    (pc = "done" /\ geo_agg = "de") =>
        LET st == ReportOf(impl, Fresh, time_agg, "state", count_sundays,
                           states_info)
        IN  /\ {row.date : row \in Rows(report_db)} = {row.date : row \in Rows(st)}
            /\ Cardinality(DOMAIN report_db)
                  = Cardinality({row.date : row \in Rows(st)})
            /\ \A row \in Rows(report_db) :
                  /\ row.FT = WeightedSum(st, DOMAIN states_info, "FT", row.date)
                  /\ row.VOT = WeightedSum(st, DOMAIN states_info, "VOT", row.date)

\* C8 witness: a nationwide report with a bucket whose FT is a proper
\* fraction (a holiday of some states only)
C8_Witness ==
    /\ pc = "done" /\ geo_agg = "de"
    /\ \E row \in Rows(report_db) : row.FT > 0 /\ row.FT < 900000

\* C9: a time_agg outside {day, week} or a geo_agg outside {state, de}
\* ends in an error surfaced to the caller and no report table.
C9_InvalidAggregationRaises ==
    (pc \in {"done", "raised"}
        /\ (time_agg \notin {"day", "week"} \/ geo_agg \notin {"state", "de"})) =>
    (pc = "raised" /\ error # "none" /\ DOMAIN report_db = {})

\* the time bucket of a date under the handler's time_agg
Bucket(n) == IF time_agg = "day" THEN n ELSE n - weekday(n)

\* the rows of table d for one state that fall into bucket b and are not
\* Sundays
WeekdayRows(d, code, b) ==
    {r \in DOMAIN d : /\ d[r].state_code = code
                      /\ Bucket(d[r].date) = b
                      /\ weekday(d[r].date) # 6}

\* the population-weighted FT of the non-Sunday days of bucket b
RECURSIVE WeightedWeekdayFT(_, _, _)
WeightedWeekdayFT(d, ks, b) ==
    IF ks = {} THEN 0
    ELSE LET k == CHOOSE x \in ks : TRUE
         IN  states_info[k].population_pct
                * SumOver(d, WeekdayRows(d, states_info[k].state_code, b), "FT")
             + WeightedWeekdayFT(d, ks \ {k}, b)

\* the FT the report row should carry when Sundays are not counted: the
\* FT of the non-Sunday days of its bucket (population-weighted over all
\* states for geo_agg=de, of its own state otherwise)
WeekdayFT(d, row) ==
    IF geo_agg = "de"
    THEN WeightedWeekdayFT(d, DOMAIN states_info, row.date)
    ELSE SumOver(d, WeekdayRows(d, row.state_code, row.date), "FT")

\* a report reduced to its key columns and VOT
VOTOnly(d) ==
    {[c \in (DOMAIN row) \cap {"state", "state_code", "date", "VOT"} |-> row[c]] :
        row \in Rows(d)}

\* C10: with count_sundays false every Sunday row contributes 0 to the
\* reported FT, and the reported VOT is the one reported with
\* count_sundays true.
C10_SundaysNotCounted ==
    (pc = "done" /\ ~count_sundays) =>
        LET fresh == Fresh
        IN  /\ \A row \in Rows(report_db) :
                  row.FT = WeekdayFT(fresh, row)
            /\ VOTOnly(report_db) =
                  VOTOnly(ReportOf(impl, fresh, time_agg, geo_agg, TRUE,
                                   states_info))

\* C10 witness: a report without counted Sundays over a range in which a
\* holiday of some state falls on a Sunday
C10_Witness ==
    /\ pc = "done" /\ ~count_sundays
    /\ \E row \in Rows(Fresh) : weekday(row.date) = 6 /\ row.FT >= 1

\* the weight table a handler has if nothing but its own arguments counts
OwnWeights == StatesInfo(impl, states_de_xlsx, bl_weights)

\* C11: the weight table is not shared between handlers: whatever handlers
\* were constructed before, a handler's report is the one its own arguments
\* give, with bl_weights if it passed them and the loaded table otherwise
C11_WeightsNotShared ==
    pc = "done" =>
        report_db = ReportOf(impl,
                             create_db(impl, start_date, end_date,
                                       special_holidays, OwnWeights),
                             time_agg, geo_agg, count_sundays, OwnWeights)

\* C12: aggregation leaves the stored table unchanged: once a handler has
\* reported, however often and with whatever settings, db is the table
\* create_db built (FT before the Sunday adjustment, every row's own date)
\* and the report is the one a new handler with the current settings gives
C12_ReportLeavesDbUnchanged ==
    pc = "done" =>
        /\ db = Fresh
        /\ report_db = ReportOf(impl, Fresh, time_agg, geo_agg, count_sundays,
                                states_info)

\* Easter Sunday of a year as the handler's implementation computes it
EasterOf(year) == IF impl = "holidays" THEN easter_date(year) ELSE ostern(year)

\* the same-year test: the date is Easter of its own year plus the offset
SameYear(row, offset) ==
    LET y == row.year[1] * 1000 + row.year[2] * 100 + row.year[3] * 10 + row.year[4]
    IN  IF row.date = EasterOf(y) + offset THEN 1 ELSE 0

\* C13: for each of the nine movable holidays the pooled membership test of
\* create_db marks exactly the days the same-year test marks, and marks at
\* most one day of every calendar year
C13_PooledIsSameYear ==
    pc = "movable" =>
        \A h \in DOMAIN easter_related_holidays :
            /\ \A r \in DOMAIN db :
                  db[r][h] = SameYear(db[r], easter_related_holidays[h])
            /\ \A y \in YearOf(start_date)..YearOf(end_date) :
                  Cardinality({r \in DOMAIN db :
                      db[r][h] = 1 /\ db[r].year = Fmt4(y)}) <= 1

\* C13 witness: a range of three years whose middle year has all nine
\* movable holidays marked
C13_Witness ==
    /\ pc = "movable"
    /\ YearOf(end_date) = YearOf(start_date) + 2
    /\ \A h \in DOMAIN easter_related_holidays :
          \E r \in DOMAIN db :
              db[r][h] = 1 /\ db[r].year = Fmt4(YearOf(start_date) + 1)

====
